---- MODULE Spec2Model ----
(***************************************************************************)
(* Model of the MP2667 battery-charger driver: the register codec          *)
(* (modular_bitfield structs of one byte), the register map and the I2C    *)
(* transactions issued by the get_* / set_* accessors.                     *)
(***************************************************************************)
EXTENDS Integers, Sequences, FiniteSets, TLC

VARIABLES
    life,     \* "unbuilt" | "alive" | "dropped": the MP2667 value
    holder,   \* who owns the transport: "caller" | "driver" | "nobody"
    bus,      \* transactions the transport has received, in order
    calls,    \* driver calls made so far with their results, in order
    cpc,      \* codec scenario: "start" | "built" | "encoded" | "decoded"
    csrc,     \* how cx was made: "none" | "fields" | "byte" | "default"
    craw,     \* the byte cx was made from (or the byte naming the field values)
    cx,       \* the register value under test
    cbyte,    \* u8::from(cx), once encoded (-1 before)
    cy        \* Reg::from(cbyte), once decoded

vars == <<life, holder, bus, calls, cpc, csrc, craw, cx, cbyte, cy>>
drv  == <<life, holder, bus, calls>>
cdc  == <<cpc, csrc, craw, cx, cbyte, cy>>

----------------------------------------------------------------------------
(* Bounds *)

MaxCalls == 2

\* u8
Byte == 0 .. 255

\* Bytes the transport returns / values are made from in multi-call runs:
\* the byte of the InputSourceControl scenario and its complement, so that
\* every bit position takes both values.
SampleBytes == {43, 212}

\* The transport's error type E is opaque to the driver; two distinct errors.
Errors == {"Nack", "ArbitrationLoss"}

----------------------------------------------------------------------------
(* Register map *)

I2C_ADDR == 9

RWRegs == <<"InputSourceControl", "PowerOnConfiguration", "ChargeCurrentControl",
            "DischargeAndTerminationCurrent", "ChargeVoltageControl",
            "ChargeTerminationAndTimerControl", "MiscellaneousOperationControl">>

RORegs == <<"SystemStatus", "FaultFlags">>

\* register_map!: the registers given the RW arm of register!
ReadWriteRegister == {RWRegs[i] : i \in 1 .. Len(RWRegs)}

\* every register has ReadOnlyRegister: the RO arm, or the blanket impl for RW
ReadOnlyRegister == ReadWriteRegister \cup {RORegs[i] : i \in 1 .. Len(RORegs)}

ADDR(r) ==
    CASE r = "InputSourceControl"               -> 0
      [] r = "PowerOnConfiguration"             -> 1
      [] r = "ChargeCurrentControl"             -> 2
      [] r = "DischargeAndTerminationCurrent"   -> 3
      [] r = "ChargeVoltageControl"             -> 4
      [] r = "ChargeTerminationAndTimerControl" -> 5
      [] r = "MiscellaneousOperationControl"    -> 6
      [] r = "SystemStatus"                     -> 7
      [] r = "FaultFlags"                       -> 8

----------------------------------------------------------------------------
(* Enumerations (BitfieldSpecifier): discriminant = position - 1 *)

ChargeStatus       == <<"NotCharging", "PreCharge", "Charge", "ChargeDone">>
ThermalThreshold   == <<"T60C", "T80C", "T100C", "T120C">>
SafetyTimerPeriod  == <<"P20h", "P5h", "P8h", "P12h">>
WatchdogTimerLimit == <<"Disabled", "L40s", "L80s", "L160s">>
RechargeThreshold  == <<"U150mV", "U300mV">>
PrechargeThreshold == <<"U2800mV", "U3000mV">>
TerminalCurrent    == <<"I24mA", "I52mA", "I80mA", "I108mA">>
UVLOThreshold      == <<"U2400mV", "U2500mV", "U2600mV", "U2700mV",
                        "U2800mV", "U2900mV", "U3000mV", "U3100mV">>
InputCurrentLimit  == <<"I77mA", "I118mA", "I345mA", "I470mA",
                        "I540mA", "I635mA", "I734mA", "I993mA">>

----------------------------------------------------------------------------
(* Bitfield structs: fields in declaration order, first field at bit 0 *)

B(n, w)    == [name |-> n, bits |-> w, kind |-> "int",  variants |-> <<>>]
Flag(n)    == [name |-> n, bits |-> 1, kind |-> "bool", variants |-> <<>>]
Skip(n, w) == [name |-> n, bits |-> w, kind |-> "skip", variants |-> <<>>]

RECURSIVE Log2(_)
Log2(n) == IF n <= 1 THEN 0 ELSE 1 + Log2(n \div 2)

\* a BitfieldSpecifier enum of 2^k variants occupies k bits
Enum(n, vs) == [name |-> n, bits |-> Log2(Len(vs)), kind |-> "enum", variants |-> vs]

\* variant: revision declared before charge_status
SystemStatusSwapped ==
    << Flag("thermal_regulation"), Flag("power_good"), Flag("power_path_enabled"),
       B("revision", 2), Enum("charge_status", ChargeStatus), Skip("__", 1) >>

SystemStatus ==
    << Flag("thermal_regulation"), Flag("power_good"), Flag("power_path_enabled"),
       Enum("charge_status", ChargeStatus), B("revision", 2), Skip("__", 1) >>

FaultFlags ==
    << Skip("__", 2), Flag("safety_timer_expired"), Flag("battery_fault"),
       Flag("thermal_shutdown"), Flag("input_fault"),
       Flag("watchdog_timer_expired"), Skip("__", 1) >>

MiscellaneousOperationControl ==
    << Enum("thermal_regulation_threshold", ThermalThreshold), Skip("__", 1),
       Flag("ntc_enabled"), Skip("__", 1), Flag("battery_fet_disabled"),
       Flag("extended_safety_timer"), Skip("__", 1) >>

ChargeTerminationAndTimerControl ==
    << Flag("termination_control_enabled"), Enum("timer_period", SafetyTimerPeriod),
       Flag("timer_enabled"), Enum("timer_limit", WatchdogTimerLimit),
       Flag("termination_enabled"), Skip("__", 1) >>

ChargeVoltageControl ==
    << Enum("recharge_threshold", RechargeThreshold),
       Enum("precharge_threshold", PrechargeThreshold), B("regulation_voltage", 6) >>

DischargeAndTerminationCurrent ==
    << Enum("terminal_current", TerminalCurrent), Skip("__", 1),
       B("discharge_current_limit", 4), Skip("__", 1) >>

ChargeCurrentControl ==
    << B("charge_current", 5), Skip("__", 3) >>

PowerOnConfiguration ==
    << Enum("uvlo_threshold", UVLOThreshold), Flag("charge_disabled"), Skip("__", 2),
       Flag("watchdog_timer_reset"), Flag("settings_reset") >>

InputSourceControl ==
    << Enum("input_current_limit", InputCurrentLimit), B("input_minimum_voltage", 4),
       Flag("ldo_fet_disabled") >>

Layout(r) ==
    CASE r = "InputSourceControl"               -> InputSourceControl
      [] r = "PowerOnConfiguration"             -> PowerOnConfiguration
      [] r = "ChargeCurrentControl"             -> ChargeCurrentControl
      [] r = "DischargeAndTerminationCurrent"   -> DischargeAndTerminationCurrent
      [] r = "ChargeVoltageControl"             -> ChargeVoltageControl
      [] r = "ChargeTerminationAndTimerControl" -> ChargeTerminationAndTimerControl
      [] r = "MiscellaneousOperationControl"    -> MiscellaneousOperationControl
      [] r = "SystemStatus"                     -> SystemStatus
      [] r = "FaultFlags"                       -> FaultFlags

RECURSIVE Pow2(_)
Pow2(n) == IF n = 0 THEN 1 ELSE 2 * Pow2(n - 1)

\* variant: fields packed from the most significant bit down
RECURSIVE OffsetMsbFirst(_, _)
OffsetMsbFirst(r, i) ==
    IF i = Len(Layout(r)) THEN 0 ELSE OffsetMsbFirst(r, i + 1) + Layout(r)[i + 1].bits

\* bit offset of the i-th field: the widths of the fields declared before it
RECURSIVE Offset(_, _)
Offset(r, i) == IF i = 1 THEN 0 ELSE Offset(r, i - 1) + Layout(r)[i - 1].bits

\* index of the accessible (non-skipped) field called n
FieldIdx(r, n) ==
    CHOOSE i \in 1 .. Len(Layout(r)) : Layout(r)[i].name = n /\ Layout(r)[i].kind # "skip"

Accessible(r) == {i \in 1 .. Len(Layout(r)) : Layout(r)[i].kind # "skip"}

\* the bits [off, off + w) of byte b
Bits(b, off, w) == (b \div Pow2(off)) % Pow2(w)

\* Specifier::from_bytes: raw field bits to the typed field value
FromBits(f, raw) ==
    CASE f.kind = "bool" -> (raw = 1)
      [] f.kind = "enum" -> f.variants[raw + 1]
      [] OTHER           -> raw

\* Specifier::into_bytes: typed field value to raw field bits
IntoBits(f, v) ==
    CASE f.kind = "bool" -> (IF v THEN 1 ELSE 0)
      [] f.kind = "enum" -> (CHOOSE k \in 0 .. Len(f.variants) - 1 : f.variants[k + 1] = v)
      [] OTHER           -> v

----------------------------------------------------------------------------
(* The generated struct: struct Reg { bytes: [u8; 1] } *)

\* variant: from_bytes drops the bits of skipped fields
RECURSIVE KeepAccessible(_, _, _)
KeepAccessible(r, raw, k) ==
    IF k = 0 THEN 0
    ELSE (IF Layout(r)[k].kind = "skip" THEN 0
          ELSE Bits(raw, Offset(r, k), Layout(r)[k].bits) * Pow2(Offset(r, k)))
         + KeepAccessible(r, raw, k - 1)

from_bytes_masked(r, raw) ==
    [reg |-> r, bytes |-> << KeepAccessible(r, raw, Len(Layout(r))) >>]

\* Reg::from_bytes([raw]): the struct fills its byte, the array is stored as is
from_bytes(r, raw) == [reg |-> r, bytes |-> <<raw>>]

\* reg.into_bytes(): the stored array
into_bytes(v) == v.bytes

\* Reg::new(): all bits zero
new(r) == [reg |-> r, bytes |-> <<0>>]

\* getter reg.<n>()
Getter(v, n) ==
    LET i == FieldIdx(v.reg, n)
        f == Layout(v.reg)[i]
    IN  FromBits(f, Bits(v.bytes[1], Offset(v.reg, i), f.bits))

\* setter reg.with_<n>(x) / reg.set_<n>(x): replaces the field's bits only
With(v, n, x) ==
    LET i    == FieldIdx(v.reg, n)
        f    == Layout(v.reg)[i]
        off  == Offset(v.reg, i)
        old  == Bits(v.bytes[1], off, f.bits)
    IN  [v EXCEPT !.bytes = <<v.bytes[1] - old * Pow2(off) + IntoBits(f, x) * Pow2(off)>>]

\* impl From<u8> for Reg
FromU8(r, raw) == from_bytes(r, raw)

\* impl From<Reg> for u8
IntoU8(v) == into_bytes(v)[1]

\* variant: #[derive(Default)], all bits zero
DefaultDerived(r) == [reg |-> r, bytes |-> <<0>>]

\* impl Default for Reg (read-write registers)
Default(r) ==
    CASE r = "InputSourceControl"               -> [reg |-> r, bytes |-> <<75>>]
      [] r = "PowerOnConfiguration"             -> [reg |-> r, bytes |-> <<4>>]
      [] r = "ChargeCurrentControl"             -> [reg |-> r, bytes |-> <<7>>]
      [] r = "DischargeAndTerminationCurrent"   -> [reg |-> r, bytes |-> <<73>>]
      [] r = "ChargeVoltageControl"             -> [reg |-> r, bytes |-> <<163>>]
      [] r = "ChargeTerminationAndTimerControl" -> [reg |-> r, bytes |-> <<74>>]
      [] r = "MiscellaneousOperationControl"    -> [reg |-> r, bytes |-> <<11>>]

\* Reg::new().with_f1(..).with_f2(..)...: every accessible field i <= k set to
\* the value named by the corresponding bits of sel
RECURSIVE Build(_, _, _)
Build(r, sel, k) ==
    IF k = 0 THEN new(r)
    ELSE LET f    == Layout(r)[k]
             prev == Build(r, sel, k - 1)
         IN  IF f.kind = "skip" THEN prev
             ELSE With(prev, f.name, FromBits(f, Bits(sel, Offset(r, k), f.bits)))

----------------------------------------------------------------------------
(* Transport (embedded-hal blocking i2c): what the bus is asked to do *)

\* i2c.write(address, bytes)
WriteTx(address, bytes, outcome) ==
    [kind |-> "write", dev |-> address, wr |-> bytes, rdlen |-> 0,
     res |-> outcome, rd |-> <<>>]

\* i2c.write_read(address, bytes, buffer): buffer is filled on success only
WriteReadTx(address, bytes, buflen, outcome, rx) ==
    [kind |-> "write_read", dev |-> address, wr |-> bytes, rdlen |-> buflen,
     res |-> outcome, rd |-> IF outcome = "Ok" THEN <<rx>> ELSE <<>>]

Outcomes == {"Ok"} \cup Errors

\* Result<T, E>
Unit    == [reg |-> "()", bytes |-> <<>>]
NoValue == [reg |-> "-", bytes |-> <<>>]
Ok(v)   == [ok |-> TRUE,  err |-> "none", val |-> v]
Err(e)  == [ok |-> FALSE, err |-> e,      val |-> NoValue]

----------------------------------------------------------------------------
(* Driver *)

\* variant: the address write and the read as two transactions
ReadSplit(r, outcome, rx) ==
    [txs |-> << WriteTx(I2C_ADDR, <<ADDR(r)>>, outcome),
                [kind |-> "read", dev |-> I2C_ADDR, wr |-> <<>>, rdlen |-> 1,
                 res |-> outcome, rd |-> IF outcome = "Ok" THEN <<rx>> ELSE <<>>] >>,
     ret |-> IF outcome = "Ok" THEN Ok(FromU8(r, rx)) ELSE Err(outcome)]

\* variant: a failed write_read is tried once more before the error is returned
ReadRetry(r, outcome, rx) ==
    LET tx == WriteReadTx(I2C_ADDR, <<ADDR(r)>>, 1, outcome, rx)
    IN  [txs |-> IF outcome = "Ok" THEN <<tx>> ELSE <<tx, tx>>,
         ret |-> IF outcome = "Ok" THEN Ok(FromU8(r, rx)) ELSE Err(outcome)]

\* variant: a register image kept from the last successful write is returned
\* without going to the bus
ReadCached(r, outcome, rx) ==
    LET hits == {i \in 1 .. Len(bus) :
                    bus[i].kind = "write" /\ bus[i].res = "Ok" /\ bus[i].wr[1] = ADDR(r)}
        last == CHOOSE i \in hits : \A j \in hits : j <= i
    IN  IF hits # {}
          THEN [txs |-> << >>, ret |-> Ok(FromU8(r, bus[last].wr[2]))]
          ELSE [txs |-> << WriteReadTx(I2C_ADDR, <<ADDR(r)>>, 1, outcome, rx) >>,
                ret |-> IF outcome = "Ok" THEN Ok(FromU8(r, rx)) ELSE Err(outcome)]

\* ReadOnlyRegister::read: one write_read of [ADDR] into a one-byte buffer,
\* then .map(|_| buf[0].into())
read(r, outcome, rx) ==
    [txs |-> << WriteReadTx(I2C_ADDR, <<ADDR(r)>>, 1, outcome, rx) >>,
     ret |-> IF outcome = "Ok" THEN Ok(FromU8(r, rx)) ELSE Err(outcome)]

\* variant: the value byte sent before the register address
WriteValueFirst(v, outcome) ==
    [txs |-> << WriteTx(I2C_ADDR, <<IntoU8(v), ADDR(v.reg)>>, outcome) >>,
     ret |-> IF outcome = "Ok" THEN Ok(Unit) ELSE Err(outcome)]

\* ReadWriteRegister::write: one write of [ADDR, self.into()]
write(v, outcome) ==
    [txs |-> << WriteTx(I2C_ADDR, <<ADDR(v.reg), IntoU8(v)>>, outcome) >>,
     ret |-> IF outcome = "Ok" THEN Ok(Unit) ELSE Err(outcome)]

\* variant: new() probes the chip's status register
NewProbe == << WriteReadTx(I2C_ADDR, <<ADDR("SystemStatus")>>, 1, "Ok", 0) >>

\* MP2667::new(i2c): MP2667 { i2c }, no bus traffic
NewIO == << >>

\* the get_* methods of impl MP2667 and the register each reads
Getters ==
    [get_input_source                         |-> "InputSourceControl",
     get_power_on_config                      |-> "PowerOnConfiguration",
     get_charge_current_control               |-> "ChargeCurrentControl",
     get_discharge_and_termination_current    |-> "DischargeAndTerminationCurrent",
     get_charge_voltage_control               |-> "ChargeVoltageControl",
     get_charge_termination_and_timer_control |-> "ChargeTerminationAndTimerControl",
     get_miscellaneous_operation_control      |-> "MiscellaneousOperationControl",
     get_status                               |-> "SystemStatus",
     get_faults                               |-> "FaultFlags"]

\* variant: SystemStatus mapped RW and given a setter
SettersWithStatus ==
    [set_input_source                         |-> "InputSourceControl",
     set_power_on_config                      |-> "PowerOnConfiguration",
     set_charge_current_control               |-> "ChargeCurrentControl",
     set_discharge_and_termination_current    |-> "DischargeAndTerminationCurrent",
     set_charge_voltage_control               |-> "ChargeVoltageControl",
     set_charge_termination_and_timer_control |-> "ChargeTerminationAndTimerControl",
     set_miscellaneous_operation_control      |-> "MiscellaneousOperationControl",
     set_status                               |-> "SystemStatus"]

\* the set_* methods of impl MP2667 and the register type each takes
Setters ==
    [set_input_source                         |-> "InputSourceControl",
     set_power_on_config                      |-> "PowerOnConfiguration",
     set_charge_current_control               |-> "ChargeCurrentControl",
     set_discharge_and_termination_current    |-> "DischargeAndTerminationCurrent",
     set_charge_voltage_control               |-> "ChargeVoltageControl",
     set_charge_termination_and_timer_control |-> "ChargeTerminationAndTimerControl",
     set_miscellaneous_operation_control      |-> "MiscellaneousOperationControl"]

Call(m, op, r, arg, done) ==
    [method |-> m, op |-> op, reg |-> r, arg |-> arg, ret |-> done.ret]

\* pub fn new(i2c: I2C) -> Self
New ==
    /\ life = "unbuilt"
    /\ holder = "caller"
    /\ life' = "alive"
    /\ holder' = "driver"
    /\ bus' = bus \o NewIO
    /\ UNCHANGED <<calls, cdc>>

\* pub fn get_*(&mut self) -> Result<Reg, E>
DoGet(m, outcome, rx) ==
    LET r    == Getters[m]
        done == read(r, outcome, rx)
    IN  /\ life = "alive"
        /\ r \in ReadOnlyRegister
        /\ bus' = bus \o done.txs
        /\ calls' = Append(calls, Call(m, "get", r, NoValue, done))
        /\ UNCHANGED <<life, holder, cdc>>

\* pub fn set_*(&mut self, cfg: Reg) -> Result<(), E>
DoSet(m, v, outcome) ==
    LET r    == Setters[m]
        done == write(v, outcome)
    IN  /\ life = "alive"
        /\ v.reg = r
        /\ bus' = bus \o done.txs
        /\ calls' = Append(calls, Call(m, "set", r, v, done))
        /\ UNCHANGED <<life, holder, cdc>>

\* any get_*, the transport answering with any outcome and a byte of rxs
Get(rxs) ==
    \E m \in DOMAIN Getters :
        \/ \E rx \in rxs : DoGet(m, "Ok", rx)
        \/ \E e \in Errors : DoGet(m, e, 0)

\* any set_* with any value made from a byte of raws
Set(raws) ==
    \E m \in DOMAIN Setters, raw \in raws, outcome \in Outcomes :
        DoSet(m, from_bytes(Setters[m], raw), outcome)

\* the driver goes out of scope: its only field, the transport, goes with it
Drop ==
    /\ life = "alive"
    /\ life' = "dropped"
    /\ holder' = "nobody"
    /\ UNCHANGED <<bus, calls, cdc>>

----------------------------------------------------------------------------
(* Codec scenario: make a value, encode it, decode the byte *)

\* Reg::new().with_*(..)...: sel names a value for every accessible field
CBuild ==
    /\ cpc = "start"
    /\ \E r \in ReadOnlyRegister, sel \in Byte :
          /\ cx' = Build(r, sel, Len(Layout(r)))
          /\ craw' = sel
    /\ csrc' = "fields"
    /\ cpc' = "built"
    /\ UNCHANGED <<cbyte, cy, drv>>

\* Reg::from(raw)
CFrom ==
    /\ cpc = "start"
    /\ \E r \in ReadOnlyRegister, raw \in Byte :
          /\ cx' = FromU8(r, raw)
          /\ craw' = raw
    /\ csrc' = "byte"
    /\ cpc' = "built"
    /\ UNCHANGED <<cbyte, cy, drv>>

\* Reg::default()
CDefault ==
    /\ cpc = "start"
    /\ \E r \in ReadWriteRegister :
          /\ cx' = Default(r)
          /\ craw' = Default(r).bytes[1]
    /\ csrc' = "default"
    /\ cpc' = "built"
    /\ UNCHANGED <<cbyte, cy, drv>>

\* cx.into_bytes()[0]
CEncode ==
    /\ cpc = "built"
    /\ cbyte' = into_bytes(cx)[1]
    /\ cpc' = "encoded"
    /\ UNCHANGED <<csrc, craw, cx, cy, drv>>

\* Reg::from(cbyte)
CDecode ==
    /\ cpc = "encoded"
    /\ cy' = FromU8(cx.reg, cbyte)
    /\ cpc' = "decoded"
    /\ UNCHANGED <<csrc, craw, cx, cbyte, drv>>

----------------------------------------------------------------------------
(* Specifications *)

Init ==
    /\ life = "unbuilt"
    /\ holder = "caller"
    /\ bus = << >>
    /\ calls = << >>
    /\ cpc = "start"
    /\ csrc = "none"
    /\ craw = 0
    /\ cx = NoValue
    /\ cbyte = -1
    /\ cy = NoValue

\* sequences of calls, the bytes drawn from SampleBytes
GetNext == Len(calls) < MaxCalls /\ Get(SampleBytes)
SetNext == Len(calls) < MaxCalls /\ Set(SampleBytes)

Next == New \/ GetNext \/ SetNext \/ Drop

Spec == Init /\ [][Next]_vars

\* one call on a fresh driver, over every byte
GetOnce == calls = << >> /\ Get(Byte)
SetOnce == calls = << >> /\ Set(Byte)

NextOnce == New \/ GetOnce \/ SetOnce \/ Drop

SpecOnce == Init /\ [][NextOnce]_vars

\* the codec alone
NextCodec == CBuild \/ CFrom \/ CDefault \/ CEncode \/ CDecode

SpecCodec == Init /\ [][NextCodec]_vars

\* a set of a value built from its fields, then a get of the same register to
\* which the transport answers with the byte that was written
SetBuilt ==
    /\ calls = << >>
    /\ \E m \in DOMAIN Setters, sel \in Byte :
          DoSet(m, Build(Setters[m], sel, Len(Layout(Setters[m]))), "Ok")

GetEcho ==
    /\ Len(calls) = 1
    /\ \E m \in DOMAIN Getters :
          /\ Getters[m] = calls[1].reg
          /\ DoGet(m, "Ok", bus[1].wr[2])

NextRoundTrip == New \/ SetBuilt \/ GetEcho

SpecRoundTrip == Init /\ [][NextRoundTrip]_vars

----------------------------------------------------------------------------
(* The register map and bit layout as documented, for stating the claims *)

MapAddr ==
    [InputSourceControl |-> 0, PowerOnConfiguration |-> 1, ChargeCurrentControl |-> 2,
     DischargeAndTerminationCurrent |-> 3, ChargeVoltageControl |-> 4,
     ChargeTerminationAndTimerControl |-> 5, MiscellaneousOperationControl |-> 6,
     SystemStatus |-> 7, FaultFlags |-> 8]

\* mask of the documented reserved bit positions of each register
ReservedMask ==
    [InputSourceControl |-> 0, PowerOnConfiguration |-> 48, ChargeCurrentControl |-> 224,
     DischargeAndTerminationCurrent |-> 132, ChargeVoltageControl |-> 0,
     ChargeTerminationAndTimerControl |-> 128, MiscellaneousOperationControl |-> 148,
     SystemStatus |-> 128, FaultFlags |-> 131]

Bit(b, k) == (b \div Pow2(k)) % 2

\* b with the bits of mask cleared
RECURSIVE ClearBits(_, _, _)
ClearBits(b, mask, k) ==
    IF k = 8 THEN 0
    ELSE (IF Bit(mask, k) = 1 THEN 0 ELSE Bit(b, k) * Pow2(k)) + ClearBits(b, mask, k + 1)

ClearReserved(r, b) == ClearBits(b, ReservedMask[r], 0)

FieldNames(r) == {Layout(r)[i].name : i \in Accessible(r)}

SameFields(v, w) ==
    /\ v.reg = w.reg
    /\ \A n \in FieldNames(v.reg) : Getter(v, n) = Getter(w, n)

\* every call has its one transaction, at the same position
Aligned ==
    /\ Len(bus) = Len(calls)
    /\ \A i \in 1 .. Len(calls) :
          /\ bus[i].kind = (IF calls[i].op = "get" THEN "write_read" ELSE "write")
          /\ bus[i].wr[1] = MapAddr[calls[i].reg]

----------------------------------------------------------------------------
(* C1: every set_R(v) puts exactly one write on the bus, to device 0x09,    *)
(* with payload [address of R, encoded byte of v], and no read.             *)
C1_SetWritesAddressAndByte ==
    /\ Len(bus) = Len(calls)
    /\ \A i \in 1 .. Len(calls) :
          calls[i].op = "set" =>
              /\ calls[i].reg \in ReadWriteRegister
              /\ calls[i].arg.reg = calls[i].reg
              /\ bus[i].kind = "write"
              /\ bus[i].dev = 9
              /\ bus[i].wr = << MapAddr[calls[i].reg], calls[i].arg.bytes[1] >>
              /\ bus[i].rdlen = 0
              /\ bus[i].rd = << >>

C1_Witness ==
    /\ Len(calls) = 1
    /\ calls[1].method = "set_charge_voltage_control"
    /\ bus = << WriteTx(9, <<4, 163>>, "Ok") >>

(* C2: every get_R puts exactly one write_read on the bus, to device 0x09,  *)
(* writing [address of R] and reading one byte; on success the result is    *)
(* the value of R whose fields are the bits of that byte.                   *)
C2_GetIsOneWriteRead ==
    /\ Len(bus) = Len(calls)
    /\ \A i \in 1 .. Len(calls) :
          calls[i].op = "get" =>
              /\ bus[i].kind = "write_read"
              /\ bus[i].dev = 9
              /\ bus[i].wr = << MapAddr[calls[i].reg] >>
              /\ bus[i].rdlen = 1
              /\ bus[i].res = "Ok" =>
                    /\ Len(bus[i].rd) = 1
                    /\ calls[i].ret.ok
                    /\ calls[i].ret.val.reg = calls[i].reg
                    /\ \A k \in Accessible(calls[i].reg) :
                          LET f == Layout(calls[i].reg)[k]
                          IN  Getter(calls[i].ret.val, f.name) =
                                FromBits(f, Bits(bus[i].rd[1], Offset(calls[i].reg, k), f.bits))

C2_Witness ==
    /\ Len(calls) = 1
    /\ calls[1].method = "get_faults"
    /\ bus = << WriteReadTx(9, <<8>>, 1, "Ok", 36) >>
    /\ Getter(calls[1].ret.val, "input_fault")
    /\ Getter(calls[1].ret.val, "safety_timer_expired")
    /\ ~ Getter(calls[1].ret.val, "battery_fault")

(* C3: the bus never receives a register write for SystemStatus (0x07) or   *)
(* FaultFlags (0x08); the only calls on them are get_status and get_faults. *)
C3_NoWriteToReadOnly ==
    /\ \A i \in 1 .. Len(bus) :
          bus[i].kind = "write" => bus[i].wr[1] \notin {7, 8}
    /\ \A i \in 1 .. Len(calls) :
          calls[i].reg \in {"SystemStatus", "FaultFlags"} =>
              /\ calls[i].op = "get"
              /\ calls[i].method \in {"get_status", "get_faults"}

C3_Witness ==
    /\ Len(calls) = 2
    /\ calls[1].method = "get_status"
    /\ calls[2].method = "get_faults"
    /\ bus[1].wr = <<7>>
    /\ bus[2].wr = <<8>>

(* C4: when the transport fails a call's transaction with error e, the call *)
(* returns exactly Err(e), carries no decoded value, and the driver issues  *)
(* no further transaction for it.                                           *)
C4_FailurePropagates ==
    /\ Aligned
    /\ \A i \in 1 .. Len(calls) :
          bus[i].res # "Ok" =>
              /\ bus[i].res \in Errors
              /\ ~ calls[i].ret.ok
              /\ calls[i].ret.err = bus[i].res
              /\ calls[i].ret.val = NoValue

C4_Witness ==
    /\ Len(calls) = 2
    /\ calls[1].op = "get" /\ bus[1].res = "Nack" /\ calls[1].ret = Err("Nack")
    /\ calls[2].op = "set" /\ bus[2].res = "ArbitrationLoss"
    /\ calls[2].ret = Err("ArbitrationLoss")

\* the value of the InputSourceControl scenario
ExampleInputSource ==
    With(With(With(new("InputSourceControl"),
        "input_current_limit", "I470mA"),
        "input_minimum_voltage", 5),
        "ldo_fet_disabled", FALSE)

(* C5: a value built from any field combination of a read-write register,   *)
(* written with set_R and read back with a get_R whose transport returns    *)
(* the written byte, comes back identical, field by field; the              *)
(* InputSourceControl value (I470mA, 5, false) goes out as [0x00, 0x2B].    *)
C5_RoundTrip ==
    /\ \A i \in 1 .. Len(calls) :
          (calls[i].op = "set" /\ calls[i].arg = ExampleInputSource) =>
              bus[i].wr = <<0, 43>>
    /\ \A i, j \in 1 .. Len(calls) :
          ( /\ i < j
            /\ calls[i].op = "set" /\ calls[j].op = "get"
            /\ calls[i].reg = calls[j].reg
            /\ bus[i].res = "Ok" /\ bus[j].res = "Ok"
            /\ bus[j].rd = << bus[i].wr[2] >> ) =>
              /\ calls[j].ret.ok
              /\ calls[j].ret.val = calls[i].arg
              /\ SameFields(calls[j].ret.val, calls[i].arg)
              /\ calls[i].arg = ExampleInputSource =>
                    /\ Getter(calls[j].ret.val, "input_current_limit") = "I470mA"
                    /\ Getter(calls[j].ret.val, "input_minimum_voltage") = 5
                    /\ Getter(calls[j].ret.val, "ldo_fet_disabled") = FALSE

C5_Witness ==
    /\ Len(calls) = 2
    /\ calls[1].method = "set_input_source"
    /\ calls[1].arg = ExampleInputSource
    /\ calls[2].method = "get_input_source"
    /\ bus[1].wr = <<0, 43>>
    /\ bus[2].rd = <<43>>
    /\ calls[2].ret = Ok(ExampleInputSource)

C7_DefaultIsI993mA ==
    (csrc = "default" /\ cx.reg = "InputSourceControl") =>
        /\ cx.bytes = <<75>>
        /\ Getter(cx, "input_current_limit") = "I993mA"

(* C7 amended: the InputSourceControl default is the byte 0b0100_1011 and   *)
(* it decodes to input_current_limit = I470mA, input_minimum_voltage = 9,   *)
(* ldo_fet_disabled = false.                                                *)
C7_DefaultIsI470mA ==
    (csrc = "default" /\ cx.reg = "InputSourceControl") =>
        /\ cx.bytes = <<75>>
        /\ Getter(cx, "input_current_limit") = "I470mA"
        /\ Getter(cx, "input_minimum_voltage") = 9
        /\ Getter(cx, "ldo_fet_disabled") = FALSE
        /\ cpc \in {"encoded", "decoded"} => cbyte = 75
        /\ cpc = "decoded" => Getter(cy, "input_current_limit") = "I470mA"

C7_Witness ==
    /\ csrc = "default"
    /\ cx.reg = "InputSourceControl"
    /\ cpc = "decoded"
    /\ cbyte = 75

(* C8: get_status decodes the returned byte LSB first: thermal_regulation   *)
(* bit 0, power_good bit 1, power_path_enabled bit 2, charge_status bits    *)
(* 3-4, revision bits 5-6, bit 7 in no field; 0b0000_0110 gives             *)
(* (false, true, true, NotCharging, 0).                                     *)
C8_StatusLayout ==
    \A i \in 1 .. Len(calls) :
        (calls[i].method = "get_status" /\ bus[i].res = "Ok") =>
            LET b == bus[i].rd[1]
                v == calls[i].ret.val
            IN  /\ calls[i].ret.ok
                /\ Getter(v, "thermal_regulation") = (Bit(b, 0) = 1)
                /\ Getter(v, "power_good") = (Bit(b, 1) = 1)
                /\ Getter(v, "power_path_enabled") = (Bit(b, 2) = 1)
                /\ Getter(v, "charge_status") =
                      <<"NotCharging", "PreCharge", "Charge", "ChargeDone">>
                          [Bit(b, 3) + 2 * Bit(b, 4) + 1]
                /\ Getter(v, "revision") = Bit(b, 5) + 2 * Bit(b, 6)
                /\ FieldNames("SystemStatus") =
                      {"thermal_regulation", "power_good", "power_path_enabled",
                       "charge_status", "revision"}
                /\ b = 6 =>
                      /\ Getter(v, "thermal_regulation") = FALSE
                      /\ Getter(v, "power_good") = TRUE
                      /\ Getter(v, "power_path_enabled") = TRUE
                      /\ Getter(v, "charge_status") = "NotCharging"
                      /\ Getter(v, "revision") = 0

C8_Witness ==
    /\ Len(calls) = 1
    /\ calls[1].method = "get_status"
    /\ bus = << WriteReadTx(9, <<7>>, 1, "Ok", 6) >>
    /\ Getter(calls[1].ret.val, "power_good")

C10_Stateless ==
    /\ Aligned
    /\ \A i \in 1 .. Len(calls) :
          calls[i].op = "get" =>
              calls[i].ret = (IF bus[i].res = "Ok"
                                THEN Ok([reg |-> calls[i].reg, bytes |-> bus[i].rd])
                                ELSE Err(bus[i].res))
    /\ \A i, j \in 1 .. Len(calls) :
          ( /\ calls[i].op = "get" /\ calls[j].op = "get"
            /\ calls[i].reg = calls[j].reg
            /\ bus[i].res = bus[j].res /\ bus[i].rd = bus[j].rd ) =>
              calls[i].ret = calls[j].ret

C10_Witness ==
    /\ Len(calls) = 2
    /\ calls[1].method = "set_charge_current_control"
    /\ bus[1] = WriteTx(9, <<2, 43>>, "Ok")
    /\ calls[2].method = "get_charge_current_control"
    /\ bus[2] = WriteReadTx(9, <<2>>, 1, "Ok", 212)
    /\ calls[2].ret = Ok(from_bytes("ChargeCurrentControl", 212))

====
